---- MODULE Spec2Model ----
(***************************************************************************)
(* Survey coder: the batched, concurrent classification pipeline of        *)
(* coder_app/services/classification_service.py, and the project store of  *)
(* coder_app/storage/database.py and coder_app/services/project_manager.py.*)
(*                                                                         *)
(*   SpecBatch    one direct call of classify_batch, inputs and the model  *)
(*                client's outcome drawn from bounded sets                 *)
(*   Spec         one run of classify_batches_async on an arbitrary list   *)
(*                of small batches (main thread + ThreadPoolExecutor)      *)
(*   SpecLive     Spec with the fairness of running threads                *)
(*   SpecChunked  a run on the batches chunk_list(flat, BATCH_SIZE) makes  *)
(*   SpecCap      a run with more batches than MAX_CONCURRENCY             *)
(*   SpecClassify a direct call or a run, whichever the caller makes       *)
(*   SpecStore    the project and codebook calls on a new database         *)
(*   SpecResults  the classification result calls on a database that      *)
(*                holds two projects and a codebook                        *)
(*   SpecLifecycle projects created and deleted, codebooks and results     *)
(*                saved to them, one call after the other                  *)
(*   SpecRace     two save_codebook calls that interleave                  *)
(*   SpecUtil     the helpers chunk_list and reconstruct_codebook_text     *)
(***************************************************************************)
EXTENDS Integers, Sequences, FiniteSets, TLC

VARIABLES
    client,               \* the model client (self.client): the name of a stub
    multi_label,          \* argument multi_label
    include_explanation,  \* argument include_explanation
    \* ---- one direct call of classify_batch
    responses,            \* argument responses
    pc,                   \* "idle" (no call) | "ready" | "returned" | "raised"
    parsed,               \* local parsed of classify_batch
    ret,                  \* the returned list
    calls,                \* number of _call_openai_api calls made
    api_outcome,          \* what the request of the call ended in (None: no request)
    \* ---- one run of classify_batches_async
    flat,                 \* the caller's flat response list, before batching
    batched_responses,    \* argument batched_responses
    sched_pc,             \* main thread: "idle" (no run) | "entry" | "submit" | "collect"
                          \* | "returned" | "raised"
    results,              \* local results: the pre-sized output list
    submitted,            \* how many tasks executor.submit has been called for
    queue,                \* the executor's FIFO work queue (batch positions)
    futures,              \* per task: state of its future, worker's return value
    yielded,              \* futures as_completed has already yielded
    worker_parsed,        \* per task: local parsed of its classify_batch call
    worker_outcome,       \* per task: what its request ended in (None: no request)
    worker_calls,         \* per task: number of _call_openai_api calls made
    writes,               \* per position of results: number of assignments
    writers,              \* per position of results: tasks whose value was stored
    sched_ret,            \* value returned by classify_batches_async
    \* ---- the project store (storage/database.py, services/project_manager.py)
    projects,             \* table projects: rows [id, name]
    codebooks,            \* table codebooks: rows [id, project_id, version, data]
    classifications,      \* table classifications: rows [id, project_id, codebook_id,
                          \* response_text, assigned_codes, created_at]
    clock,                \* the reading datetime.utcnow() gives now
    last_op,              \* the last ProjectManager call and how it ended
    savers,               \* per caller of DatabaseManager.save_codebook: where
                          \* it is in the call, and its local next_version
    \* ---- one call of a pure helper
    chunk_items,          \* argument items of chunk_list
    chunk_size,           \* argument size of chunk_list
    chunks,               \* what chunk_list returned (None: not called)
    text_codebook,        \* argument codebook of reconstruct_codebook_text
    codebook_text         \* what reconstruct_codebook_text returned (None: not called)

batch_vars == <<responses, pc, parsed, ret, calls, api_outcome>>
sched_vars == <<flat, batched_responses, sched_pc, results, submitted, queue, futures,
                yielded, worker_parsed, worker_outcome, worker_calls, writes,
                writers, sched_ret>>
store_vars == <<projects, codebooks, classifications, clock, last_op>>
util_vars == <<chunk_items, chunk_size, chunks, text_codebook, codebook_text>>
vars == <<client, multi_label, include_explanation, batch_vars, sched_vars, store_vars,
          savers, util_vars>>

(***************************************************************************)
(* Bounds of the model.                                                    *)
(***************************************************************************)
MaxLen == 3        \* longest response list of a direct classify_batch call
MaxResults == 2    \* most entries in one parsed.results
MaxBatches == 3    \* most batches of a run (Spec)
MaxBatchLen == 1   \* longest batch of a run (Spec)
CapBatches == 9    \* batches of a run that exceeds the pool (SpecCap)
MaxProjectId == 3  \* highest id a project row gets (SpecStore)
MaxCodebooks == 3  \* most rows of table codebooks (SpecStore)
MaxClassifications == 3   \* most rows of table classifications (SpecStore)
MaxItems == 7      \* longest list handed to chunk_list (SpecUtil)
MaxSize == 4       \* largest chunk size handed to chunk_list (SpecUtil)
MaxRows == 3       \* most codebook and classification rows together (SpecLifecycle)
MaxCodes == 2      \* most codes of a codebook handed to reconstruct_codebook_text

(***************************************************************************)
(* Program constants.                                                      *)
(***************************************************************************)
BATCH_SIZE == 64
MAX_CONCURRENCY == 8

(***************************************************************************)
(* Python values.  None and optional strings are tagged records, so that   *)
(* None is comparable with every other value.                              *)
(***************************************************************************)
None == [kind |-> "None"]
Str(s) == [kind |-> "str", val |-> s]
IsNone(v) == v.kind = "None"

Max(S) == CHOOSE x \in S : \A y \in S : y <= x

\* A number as the model may return it in "index": number.
Int_(n) == [type |-> "int", val |-> n]
Float_(n) == [type |-> "float", val |-> n]      \* n.0
isinstance_int(x) == x.type = "int"

(***************************************************************************)
(* models/survey_models.py: the structured output of a batch call.         *)
(***************************************************************************)
EvA == [label |-> "A", fragment |-> "fa", pertinence |-> 9, explanation |-> Str("why")]
EvB == [label |-> "B", fragment |-> "fb", pertinence |-> 5, explanation |-> None]
ClassificationEvidence == {EvA, EvB}

\* The item lists an entry may carry.
ItemLists == {<<>>, <<EvA>>, <<EvA, EvB>>, <<EvB>>}

\* Index values the model may return for a batch of at most n responses:
\* negative, in range, equal to or above the length, and not an integer.
IndexValues(n) == {Int_(i) : i \in -1..n} \cup {Float_(0)}

BatchItem(n) == [index : IndexValues(n), items : ItemLists]

SeqUpTo(S, k) == UNION {[1..m -> S] : m \in 0..k}

BatchClassificationOutput(n) ==
    {[kind |-> "BatchClassificationOutput", results |-> rs] :
        rs \in SeqUpTo(BatchItem(n), MaxResults)}

(***************************************************************************)
(* What one request to the model can end in: the client raises, or         *)
(* message.parsed is returned (None on a refusal).                         *)
(***************************************************************************)
ApiErrors == {"network", "api", "schema"}
Raise(e) == [kind |-> "raise", error |-> e]
Ok(p) == [kind |-> "ok", parsed |-> p]
ApiOutcomes(n) ==
    {Raise(e) : e \in ApiErrors} \cup {Ok(None)}
        \cup {Ok(p) : p \in BatchClassificationOutput(n)}

\* What the client of a run can produce: a failure, and two different outputs.
RunOutcomes ==
    {Raise("network"),
     Ok([kind |-> "BatchClassificationOutput",
         results |-> <<[index |-> Int_(0), items |-> <<EvA>>]>>]),
     Ok([kind |-> "BatchClassificationOutput",
         results |-> <<[index |-> Int_(1), items |-> <<EvB>>],
                       [index |-> Int_(0), items |-> <<EvA, EvB>>]>>])}

ChunkOutcomes ==
    RunOutcomes \cup
    {Ok([kind |-> "BatchClassificationOutput",
         results |-> <<[index |-> Int_(BATCH_SIZE - 1), items |-> <<EvA>>],
                       [index |-> Int_(BATCH_SIZE), items |-> <<EvB>>]>>])}

\* The stubs of the model client, by name: what a request to each can end in.
Outcomes(stub) ==
    CASE stub = "any" -> ApiOutcomes(MaxLen)
      [] stub = "run" -> RunOutcomes
      [] stub = "chunked" -> ChunkOutcomes
      [] stub = "failing" -> {Raise("network")}

\* What a call gives its caller: a value, or an exception that propagates.
Returns(v) == [raised |-> FALSE, value |-> v]
Raises == [raised |-> TRUE, value |-> None]

\* Mutant: no try/except around the request.
call_openai_api_propagating(outcome) ==
    IF outcome.kind = "raise" THEN Raises ELSE Returns(outcome.parsed)

\* Mutant: "except ConnectionError" in place of "except Exception".
call_openai_api_network_only(outcome) ==
    IF outcome.kind = "raise"
    THEN IF outcome.error = "network" THEN Returns(None) ELSE Raises
    ELSE Returns(outcome.parsed)

\* _call_openai_api: try: return completion...parsed / except Exception: return None
call_openai_api(outcome) ==
    IF outcome.kind = "raise" THEN Returns(None) ELSE Returns(outcome.parsed)

(***************************************************************************)
(* classify_batch                                                          *)
(***************************************************************************)
DEFAULT == [Assigned_Code |-> "No Code Applied", Details |-> <<>>]

\* Mutant: the labels joined last to first.
RECURSIVE join_reversed(_, _)
join_reversed(sep, labels) ==
    IF Len(labels) = 0 THEN ""
    ELSE IF Len(labels) = 1 THEN labels[1]
    ELSE join_reversed(sep, Tail(labels)) \o sep \o labels[1]

\* " | ".join(labels)
RECURSIVE join(_, _)
join(sep, labels) ==
    IF Len(labels) = 0 THEN ""
    ELSE IF Len(labels) = 1 THEN labels[1]
    ELSE labels[1] \o sep \o join(sep, Tail(labels))

labels_of(item) == [k \in 1..Len(item.items) |-> item.items[k].label]

\* Mutant: the join without its "No Code Applied" fallback.
label_str_no_fallback(item) == join(" | ", labels_of(item))

\* Mutant: a single-label batch keeps the first label only.
label_str_single_label(item) ==
    IF Len(labels_of(item)) = 0 THEN "No Code Applied"
    ELSE IF multi_label THEN join(" | ", labels_of(item))
    ELSE labels_of(item)[1]

label_str(item) ==
    IF Len(labels_of(item)) > 0 THEN join(" | ", labels_of(item))
    ELSE "No Code Applied"

\* Mutant: the explanation kept whatever the flag says.
detail_of_keeps_explanation(ev, incl) ==
    [label |-> ev.label, fragment |-> ev.fragment, pertinence |-> ev.pertinence,
     explanation |-> ev.explanation]

detail_of(ev, incl) ==
    [label |-> ev.label, fragment |-> ev.fragment, pertinence |-> ev.pertinence,
     explanation |-> IF incl THEN ev.explanation ELSE None]

details_of(item, incl) ==
    [k \in 1..Len(item.items) |-> detail_of(item.items[k], incl)]

\* aligned[i] = v on a Python list (0-based, a negative i counts from the end)
list_setitem(list, i, v) ==
    LET j == IF i < 0 THEN i + Len(list) ELSE i
    IN  IF j >= 0 /\ j < Len(list) THEN [list EXCEPT ![j + 1] = v] ELSE list

\* Mutant: the guard without its "item.index < 0" test.
skipped_no_negative_test(item, n) ==
    ~isinstance_int(item.index) \/ item.index.val >= n

\* The guard of the loop body: the entry is skipped (continue).
skipped(item, n) ==
    ~isinstance_int(item.index) \/ item.index.val < 0 \/ item.index.val >= n

\* Mutant: a slot that was already written is not written again.
align_item_first_wins(aligned, item, n, incl) ==
    IF skipped(item, n) THEN aligned
    ELSE IF aligned[item.index.val + 1] # DEFAULT THEN aligned
    ELSE list_setitem(aligned, item.index.val,
                      [Assigned_Code |-> label_str(item),
                       Details |-> details_of(item, incl)])

\* One iteration of "for item in parsed.results".
align_item(aligned, item, n, incl) ==
    IF skipped(item, n) THEN aligned
    ELSE list_setitem(aligned, item.index.val,
                      [Assigned_Code |-> label_str(item),
                       Details |-> details_of(item, incl)])

RECURSIVE align_loop(_, _, _, _)
align_loop(aligned, rs, n, incl) ==
    IF Len(rs) = 0 THEN aligned
    ELSE align_loop(align_item(aligned, Head(rs), n, incl), Tail(rs), n, incl)

all_default(resps) == [k \in 1..Len(resps) |-> DEFAULT]

\* Mutant: one output entry per returned entry, appended in returned order.
align_appending(resps, p, incl) ==
    IF IsNone(p) THEN <<>>
    ELSE [k \in 1..Len(p.results) |->
             [Assigned_Code |-> label_str(p.results[k]),
              Details |-> details_of(p.results[k], incl)]]

\* Mutant: an early "return []" when the call gave nothing.
align_nothing_returns_empty(resps, p, incl) ==
    IF IsNone(p) \/ Len(p.results) = 0 THEN <<>>
    ELSE align_loop(all_default(resps), p.results, Len(resps), incl)

\* The part of classify_batch after the model call: build the aligned list.
align(resps, p, incl) ==
    IF IsNone(p) \/ Len(p.results) = 0 THEN all_default(resps)
    ELSE align_loop(all_default(resps), p.results, Len(resps), incl)

\* Mutant: the request is made before the "if not responses" test.
classify_batch_calls_first(resps, incl, outcome) ==
    LET c == call_openai_api(outcome)
    IN  IF Len(resps) = 0
        THEN [raised |-> c.raised, ret |-> <<>>, parsed |-> None, calls |-> 1]
        ELSE [raised |-> c.raised, ret |-> align(resps, c.value, incl),
              parsed |-> c.value, calls |-> 1]

\* Mutant: a failed request is made a second time.
classify_batch_retries_once(resps, incl, outcome) ==
    IF Len(resps) = 0
    THEN [raised |-> FALSE, ret |-> <<>>, parsed |-> None, calls |-> 0]
    ELSE LET c == call_openai_api(outcome)
         IN  [raised |-> c.raised, ret |-> align(resps, c.value, incl),
              parsed |-> c.value,
              calls |-> IF outcome.kind = "raise" THEN 2 ELSE 1]

\* classify_batch as a function of its inputs and of what the request ends in:
\* whether it raised, the returned list, the value of parsed, and the number
\* of requests made.
classify_batch(resps, incl, outcome) ==
    IF Len(resps) = 0
    THEN [raised |-> FALSE, ret |-> <<>>, parsed |-> None, calls |-> 0]
    ELSE LET c == call_openai_api(outcome)
         IN  IF c.raised
             THEN [raised |-> TRUE, ret |-> <<>>, parsed |-> None, calls |-> 1]
             ELSE [raised |-> FALSE, ret |-> align(resps, c.value, incl),
                   parsed |-> c.value, calls |-> 1]

(***************************************************************************)
(* chunk_list                                                              *)
(***************************************************************************)
Min(a, b) == IF a < b THEN a ELSE b

\* Mutant: the slice takes the element at j too.
slice_inclusive(items, i, j) == SubSeq(items, i + 1, Min(j + 1, Len(items)))

\* items[i:j] for 0 <= i <= j
slice(items, i, j) == SubSeq(items, i + 1, Min(j, Len(items)))

\* range(0, n, size) as the sequence of its values
range_step(n, size) == [c \in 1..((n + size - 1) \div size) |-> (c - 1) * size]

\* Mutant: range(0, len(items) - size + 1, size), which drops a short last chunk.
chunk_list_full_chunks_only(items, size) ==
    [c \in 1..(Len(items) \div size) |-> slice(items, (c - 1) * size, c * size)]

\* [items[i:i+size] for i in range(0, len(items), size)]
chunk_list(items, size) ==
    LET starts == range_step(Len(items), size)
    IN  [c \in 1..Len(starts) |-> slice(items, starts[c], starts[c] + size)]

(***************************************************************************)
(* classify_batches_async: the main thread and the ThreadPoolExecutor.     *)
(***************************************************************************)
List(l) == [kind |-> "list", val |-> l]

Batches == 1..Len(batched_responses)

\* A future: its state, the value worker returned, whether worker raised.
Future(state, result, exception) ==
    [state |-> state, result |-> result, exception |-> exception]

running == {i \in Batches : futures[i].state = "running"}
finished == {i \in Batches : futures[i].state = "finished"}

\* Model calls in flight: the running tasks that made a request.
in_flight == {i \in running : Len(batched_responses[i]) > 0}

\* Mutant: a pool one thread larger than MAX_CONCURRENCY.
has_free_worker_off_by_one == Cardinality(running) <= MAX_CONCURRENCY

\* ThreadPoolExecutor(max_workers=MAX_CONCURRENCY): a queued task starts only
\* on one of at most MAX_CONCURRENCY threads, each running one task at a time.
has_free_worker == Cardinality(running) < MAX_CONCURRENCY

\* Mutant: worker reads the loop variable when it runs, not its own idx.
worker_late_binding(idx, batch, incl, outcome) ==
    LET r == classify_batch(batch, incl, outcome)
    IN  [raised |-> r.raised,
         value |-> [idx |-> Len(batched_responses), res |-> r.ret],
         parsed |-> r.parsed, calls |-> r.calls]

\* worker(idx, batch): return idx, self.classify_batch(...)
worker(idx, batch, incl, outcome) ==
    LET r == classify_batch(batch, incl, outcome)
    IN  [raised |-> r.raised, value |-> [idx |-> idx, res |-> r.ret],
         parsed |-> r.parsed, calls |-> r.calls]

\* Mutant: results filled in completion order.
result_slot_completion_order(f) == Cardinality(yielded) + 1

\* i, res = future.result(); results[i] = res : the position written.
result_slot(f) == futures[f].result.idx

\* The futures as_completed can yield next.
completed_unyielded == finished \ yielded

\* Mutant: return as soon as one future was collected.
all_yielded_first_only == yielded # {}

\* The with block is left, and results returned, once as_completed is exhausted.
all_yielded == yielded = Batches

\* if not batched_responses: return [] / results = [None] * len(batched_responses)
Enter ==
    /\ sched_pc = "entry"
    /\ IF Len(batched_responses) = 0
       THEN /\ sched_pc' = "returned"
            /\ sched_ret' = List(<<>>)
            /\ UNCHANGED results
       ELSE /\ sched_pc' = "submit"
            /\ results' = [i \in Batches |-> None]
            /\ UNCHANGED sched_ret
    /\ UNCHANGED <<client, multi_label, include_explanation, batch_vars, store_vars,
                   savers, util_vars,
                   flat, batched_responses, submitted, queue, futures, yielded,
                   worker_parsed, worker_outcome, worker_calls, writes, writers>>

\* executor.submit(worker, i, b) for i, b in enumerate(batched_responses)
Submit ==
    /\ sched_pc = "submit"
    /\ submitted < Len(batched_responses)
    /\ LET i == submitted + 1
       IN  /\ submitted' = i
           /\ queue' = Append(queue, i)
           /\ futures' = [futures EXCEPT ![i] = Future("queued", None, FALSE)]
           /\ sched_pc' = IF i = Len(batched_responses) THEN "collect" ELSE "submit"
    /\ UNCHANGED <<client, multi_label, include_explanation, batch_vars, store_vars,
                   savers, util_vars,
                   flat, batched_responses, results, yielded, worker_parsed,
                   worker_outcome, worker_calls, writes, writers, sched_ret>>

\* A pool thread takes the oldest queued task and starts worker(i, b).
WorkerStart ==
    /\ Len(queue) > 0
    /\ has_free_worker
    /\ futures' = [futures EXCEPT ![Head(queue)] = Future("running", None, FALSE)]
    /\ queue' = Tail(queue)
    /\ UNCHANGED <<client, multi_label, include_explanation, batch_vars, store_vars,
                   savers, util_vars,
                   flat, batched_responses, sched_pc, results, submitted, yielded,
                   worker_parsed, worker_outcome, worker_calls, writes, writers,
                   sched_ret>>

\* worker(i, b) returns: the request (if any) ended in some outcome, and the
\* future holds (i, aligned list).
WorkerFinish(i) ==
    /\ i \in running
    /\ \E outcome \in Outcomes(client) :
          LET w == worker(i, batched_responses[i], include_explanation, outcome)
          IN  /\ futures' = [futures EXCEPT
                             ![i] = Future("finished", w.value, w.raised)]
              /\ worker_parsed' = [worker_parsed EXCEPT ![i] = w.parsed]
              /\ worker_outcome' = [worker_outcome EXCEPT
                     ![i] = IF w.calls = 0 THEN None ELSE outcome]
              /\ worker_calls' = [worker_calls EXCEPT ![i] = @ + w.calls]
    /\ UNCHANGED <<client, multi_label, include_explanation, batch_vars, store_vars,
                   savers, util_vars,
                   flat, batched_responses, sched_pc, results, submitted, queue,
                   yielded, writes, writers, sched_ret>>

\* for future in as_completed(future_to_idx): i, res = future.result(); results[i] = res
\* future.result() re-raises what worker raised, which ends the run.
Collect(f) ==
    /\ sched_pc = "collect"
    /\ f \in completed_unyielded
    /\ yielded' = yielded \cup {f}
    /\ IF futures[f].exception
       THEN /\ sched_pc' = "raised"
            /\ UNCHANGED <<results, writes, writers>>
       ELSE LET i == result_slot(f)
            IN  /\ results' = [results EXCEPT ![i] = List(futures[f].result.res)]
                /\ writes' = [writes EXCEPT ![i] = @ + 1]
                /\ writers' = [writers EXCEPT ![i] = @ \cup {f}]
                /\ UNCHANGED sched_pc
    /\ UNCHANGED <<client, multi_label, include_explanation, batch_vars, store_vars,
                   savers, util_vars,
                   flat, batched_responses, submitted, queue, futures,
                   worker_parsed, worker_outcome, worker_calls, sched_ret>>

\* as_completed is exhausted; the with block shuts the executor down; return results
Return ==
    /\ sched_pc = "collect"
    /\ all_yielded
    /\ sched_pc' = "returned"
    /\ sched_ret' = List(results)
    /\ UNCHANGED <<client, multi_label, include_explanation, batch_vars, store_vars,
                   savers, util_vars,
                   flat, batched_responses, results, submitted, queue, futures,
                   yielded, worker_parsed, worker_outcome, worker_calls, writes,
                   writers>>

Next ==
    \/ Enter
    \/ Submit
    \/ WorkerStart
    \/ \E i \in Batches : WorkerFinish(i)
    \/ \E f \in Batches : Collect(f)
    \/ Return

(***************************************************************************)
(* One direct call of classify_batch.                                      *)
(***************************************************************************)
ClassifyBatchCall ==
    /\ pc = "ready"
    /\ \E outcome \in Outcomes(client) :
          LET r == classify_batch(responses, include_explanation, outcome)
          IN  /\ ret' = r.ret
              /\ parsed' = r.parsed
              /\ calls' = calls + r.calls
              /\ api_outcome' = IF r.calls = 0 THEN None ELSE outcome
              /\ pc' = IF r.raised THEN "raised" ELSE "returned"
    /\ UNCHANGED <<client, multi_label, include_explanation, responses, sched_vars,
                   store_vars, savers, util_vars>>

NextBatch == ClassifyBatchCall

(***************************************************************************)
(* Initial states.                                                         *)
(***************************************************************************)
\* A list of n responses; the code never looks into a response, so the k-th
\* response is identified by its position k in the flat input.
Responses(from, n) == [k \in 1..n |-> from + k - 1]

\* No call of chunk_list.
NoChunk ==
    /\ chunk_items = <<>>
    /\ chunk_size = 1
    /\ chunks = None

\* No call of reconstruct_codebook_text.
NoText ==
    /\ text_codebook = None
    /\ codebook_text = None

\* The callers of save_codebook (threads or processes on one database).
Callers == {1, 2}

\* No save_codebook call under way.
IdleSaver == [pc |-> "idle", name |-> "", project_id |-> 0, next_version |-> 0,
              data |-> None]
NoSave == savers = [c \in Callers |-> IdleSaver]

\* The store as DatabaseManager() leaves a new database: the tables created,
\* no row in them, no ProjectManager call made.
NoStore ==
    /\ projects = {}
    /\ codebooks = {}
    /\ classifications = {}
    /\ clock = 0
    /\ last_op = [op |-> "none", name |-> "", raised |-> "none", value |-> None]
    /\ NoSave

\* No run of classify_batches_async.
NoRun ==
    /\ flat = <<>>
    /\ batched_responses = <<>>
    /\ sched_pc = "idle"
    /\ results = <<>>
    /\ submitted = 0
    /\ queue = <<>>
    /\ futures = <<>>
    /\ yielded = {}
    /\ worker_parsed = <<>>
    /\ worker_outcome = <<>>
    /\ worker_calls = <<>>
    /\ writes = <<>>
    /\ writers = <<>>
    /\ sched_ret = None

\* No direct call of classify_batch.
NoCall ==
    /\ responses = <<>>
    /\ pc = "idle"
    /\ parsed = None
    /\ ret = <<>>
    /\ calls = 0
    /\ api_outcome = None

\* The entry of classify_batches_async(question, batches, codebook_text).
RunOf(batches) ==
    /\ batched_responses = batches
    /\ sched_pc = "entry"
    /\ results = <<>>
    /\ submitted = 0
    /\ queue = <<>>
    /\ futures = [i \in 1..Len(batches) |-> Future("new", None, FALSE)]
    /\ yielded = {}
    /\ worker_parsed = [i \in 1..Len(batches) |-> None]
    /\ worker_outcome = [i \in 1..Len(batches) |-> None]
    /\ worker_calls = [i \in 1..Len(batches) |-> 0]
    /\ writes = [i \in 1..Len(batches) |-> 0]
    /\ writers = [i \in 1..Len(batches) |-> {}]
    /\ sched_ret = None

InitBatch ==
    /\ client = "any"
    /\ multi_label \in BOOLEAN
    /\ include_explanation \in BOOLEAN
    /\ responses \in {Responses(1, n) : n \in 0..MaxLen}
    /\ pc = "ready"
    /\ parsed = None
    /\ ret = <<>>
    /\ calls = 0
    /\ api_outcome = None
    /\ NoRun
    /\ NoStore
    /\ NoChunk
    /\ NoText

SmallBatches == {Responses(1, n) : n \in 0..MaxBatchLen}

Init ==
    /\ client = "run"
    /\ multi_label = FALSE
    /\ include_explanation = TRUE
    /\ NoCall
    /\ \E batches \in SeqUpTo(SmallBatches, MaxBatches) : RunOf(batches)
    /\ flat = <<>>
    /\ NoStore
    /\ NoChunk
    /\ NoText



\* A run on a flat list cut into batches of BATCH_SIZE by the caller. The
\* lengths are those around the batch boundaries.
FlatLens == {0, 1, BATCH_SIZE, BATCH_SIZE + 1, 2 * BATCH_SIZE + 1}

InitChunked ==
    /\ client = "chunked"
    /\ multi_label = FALSE
    /\ include_explanation = TRUE
    /\ NoCall
    /\ \E n \in FlatLens :
          /\ RunOf(chunk_list(Responses(1, n), BATCH_SIZE))
          /\ flat = Responses(1, n)
    /\ NoStore
    /\ NoChunk
    /\ NoText

\* A run with more batches than the pool has threads.
InitCap ==
    /\ client = "failing"
    /\ multi_label = FALSE
    /\ include_explanation = TRUE
    /\ NoCall
    /\ RunOf([i \in 1..CapBatches |-> Responses(i, 1)])
    /\ flat = <<>>
    /\ NoStore
    /\ NoChunk
    /\ NoText

SpecBatch == InitBatch /\ [][NextBatch]_vars
\* A direct call of classify_batch, or a run of classify_batches_async.
SpecClassify == (InitBatch \/ Init) /\ [][NextBatch \/ Next]_vars
Spec == Init /\ [][Next]_vars
\* Threads keep running and every model call returns.
SpecLive == Init /\ [][Next]_vars /\ WF_vars(Next)
SpecChunked == InitChunked /\ [][Next]_vars
SpecCap == InitCap /\ [][Next]_vars

(***************************************************************************)
(* The project store: the tables of storage/database.py and the calls of   *)
(* services/project_manager.py on them.  Every call runs in its own        *)
(* session and is one step.                                                *)
(***************************************************************************)
ProjectNames == {"p", "q"}

PyInt(n) == [kind |-> "int", val |-> n]
PyBool(b) == [kind |-> "bool", val |-> b]

\* models/survey_models.py: Code {code, description, examples} and
\* Codebook {codes}.
Code(code, description, examples) ==
    [kind |-> "Code", code |-> code, description |-> description,
     examples |-> examples]
CodeX == Code("X", "dx", <<"ex1", "ex2">>)
CodeY == Code("Y", "dy", <<>>)
Codebook(codes) == [kind |-> "Codebook", codes |-> codes]
CodebookValues ==
    {Codebook(<<>>), Codebook(<<CodeX, CodeY>>), Codebook(<<CodeY, CodeX>>)}

\* codebook.model_dump(): the model as plain dicts and lists.
model_dump(cb) ==
    [kind |-> "dict",
     codes |-> [k \in 1..Len(cb.codes) |->
                   [kind |-> "dict", code |-> cb.codes[k].code,
                    description |-> cb.codes[k].description,
                    examples |-> cb.codes[k].examples]]]

\* Codebook.model_validate(data): the model built back from plain dicts.
model_validate(data) ==
    Codebook([k \in 1..Len(data.codes) |->
                 Code(data.codes[k].code, data.codes[k].description,
                      data.codes[k].examples)])

\* The rows of the three tables.
Project(id, name) == [kind |-> "Project", id |-> id, name |-> name]
CodebookVersion(id, project_id, version, data) ==
    [kind |-> "CodebookVersion", id |-> id, project_id |-> project_id,
     version |-> version, data |-> data]
Classification(id, project_id, codebook_id, result, created_at) ==
    [kind |-> "Classification", id |-> id, project_id |-> project_id,
     codebook_id |-> codebook_id, response_text |-> result.response_text,
     assigned_codes |-> result.assigned_codes, details |-> result.details,
     created_at |-> created_at]

\* id = Column(Integer, primary_key=True): SQLite gives a new row the
\* largest id in the table plus one.
next_id(table) == IF table = {} THEN 1 ELSE Max({r.id : r \in table}) + 1

\* How a ProjectManager call ended: with a value, or with an exception.
OpReturns(op, name, value) ==
    [op |-> op, name |-> name, raised |-> "none", value |-> value]
OpRaises(op, name, exception) ==
    [op |-> op, name |-> name, raised |-> exception, value |-> None]

\* session.query(Project).filter(Project.name == name).first()
db_get_project(name) ==
    IF \E r \in projects : r.name = name
    THEN CHOOSE r \in projects : r.name = name
    ELSE None

\* ProjectManager.get_project: the metadata of the project, or None.
get_project(name) ==
    IF IsNone(db_get_project(name)) THEN None
    ELSE [kind |-> "ProjectMetadata", name |-> db_get_project(name).name]

\* Mutant: the name column without unique=True.
name_taken_never(name, except) == FALSE

\* name = Column(String(255), unique=True): another row holds the name.
name_taken(name, except) ==
    \E r \in projects : r.name = name /\ r.id # except

\* ProjectManager.create_project(name)
CreateProject(name) ==
    /\ IF name_taken(name, 0)
       THEN /\ last_op' = OpRaises("create_project", name, "ValueError")
            /\ UNCHANGED projects
       ELSE /\ next_id(projects) <= MaxProjectId
            /\ projects' = projects \cup {Project(next_id(projects), name)}
            /\ last_op' = OpReturns("create_project", name,
                                    [kind |-> "ProjectMetadata", name |-> name])
    /\ UNCHANGED <<client, multi_label, include_explanation, batch_vars, sched_vars,
                   savers, util_vars,
                   codebooks, classifications, clock>>

\* ProjectManager.update_project(name, name=new_name)
UpdateProject(name, new_name) ==
    /\ LET project == db_get_project(name)
       IN  IF IsNone(project)
           THEN /\ last_op' = OpReturns("update_project", name, None)
                /\ UNCHANGED projects
           ELSE IF name_taken(new_name, project.id)
           THEN /\ last_op' = OpRaises("update_project", name,
                                       "IntegrityError")
                /\ UNCHANGED projects
           ELSE /\ projects' = (projects \ {project})
                                   \cup {Project(project.id, new_name)}
                /\ last_op' = OpReturns("update_project", name,
                                        [kind |-> "ProjectMetadata",
                                         name |-> new_name])
    /\ UNCHANGED <<client, multi_label, include_explanation, batch_vars, sched_vars,
                   savers, util_vars,
                   codebooks, classifications, clock>>

\* Mutant: the delete does not look at the child rows.
children_ignored(project) == {}

\* The rows session.delete(project) sets project_id = NULL on: the project's
\* codebooks and classifications (relationships without a cascade).
children(project) ==
    {r \in codebooks \cup classifications : r.project_id = project.id}

\* ProjectManager.delete_project(name).  project_id is nullable=False in
\* both child tables: the flush fails when the project has a child row, the
\* session is rolled back and the IntegrityError reaches the caller.
DeleteProject(name) ==
    /\ LET project == db_get_project(name)
       IN  IF IsNone(project)
           THEN /\ last_op' = OpReturns("delete_project", name, PyBool(FALSE))
                /\ UNCHANGED projects
           ELSE IF children(project) # {}
           THEN /\ last_op' = OpRaises("delete_project", name, "IntegrityError")
                /\ UNCHANGED projects
           ELSE /\ projects' = projects \ {project}
                /\ last_op' = OpReturns("delete_project", name, PyBool(TRUE))
    /\ UNCHANGED <<client, multi_label, include_explanation, batch_vars, sched_vars,
                   savers, util_vars,
                   codebooks, classifications, clock>>

\* The rows of table codebooks of one project.
codebooks_of(project_id) == {r \in codebooks : r.project_id = project_id}

\* Mutant: the oldest version first (order_by version ascending).
db_get_latest_codebook_ascending(project_id) ==
    IF codebooks_of(project_id) = {} THEN None
    ELSE CHOOSE r \in codebooks_of(project_id) :
             \A o \in codebooks_of(project_id) : o.version >= r.version

\* DatabaseManager.get_latest_codebook: order_by(version.desc()).first()
db_get_latest_codebook(project_id) ==
    IF codebooks_of(project_id) = {} THEN None
    ELSE CHOOSE r \in codebooks_of(project_id) :
             \A o \in codebooks_of(project_id) : o.version <= r.version

\* Mutant: the version is the number of the project's rows.
next_version_row_count(project_id) == Cardinality(codebooks_of(project_id))

\* next_version = (latest_version.version + 1) if latest_version else 1
next_version(project_id) ==
    IF IsNone(db_get_latest_codebook(project_id)) THEN 1
    ELSE db_get_latest_codebook(project_id).version + 1

\* ProjectManager.save_codebook(project_name, codebook)
SaveCodebook(name, codebook) ==
    /\ LET project == db_get_project(name)
       IN  IF IsNone(project)
           THEN /\ last_op' = OpRaises("save_codebook", name, "ValueError")
                /\ UNCHANGED codebooks
           ELSE /\ Cardinality(codebooks) < MaxCodebooks
                /\ codebooks' = codebooks \cup
                       {CodebookVersion(next_id(codebooks), project.id,
                                        next_version(project.id),
                                        model_dump(codebook))}
                /\ last_op' = OpReturns("save_codebook", name,
                                        PyInt(next_version(project.id)))
    /\ UNCHANGED <<client, multi_label, include_explanation, batch_vars, sched_vars,
                   savers, util_vars,
                   projects, classifications, clock>>

\* ProjectManager.get_latest_codebook(project_name)
get_latest_codebook(name) ==
    IF IsNone(db_get_project(name)) THEN None
    ELSE IF IsNone(db_get_latest_codebook(db_get_project(name).id)) THEN None
    ELSE model_validate(db_get_latest_codebook(db_get_project(name).id).data)

\* The result dicts handed to save_classification_results: two that can be
\* stored and one whose response_text is None.
ResultR1 == [response_text |-> Str("r1"), assigned_codes |-> <<"X">>, details |-> <<>>]
ResultR2 == [response_text |-> Str("r2"), assigned_codes |-> <<>>, details |-> <<>>]
ResultBad == [response_text |-> None, assigned_codes |-> <<"X">>, details |-> <<>>]
ResultLists ==
    {<<>>, <<ResultR1>>, <<ResultBad>>, <<ResultBad, ResultR1>>,
     <<ResultR1, ResultBad, ResultR2>>}

\* response_text = Column(Text, nullable=False): the insert of a row without
\* a response text fails.
insert_fails(result) == IsNone(result.response_text)

\* Mutant: the loop without its try/except counts a result whatever the
\* insert did.
RECURSIVE save_results_counts_all(_, _, _, _, _, _)
save_results_counts_all(table, now, project_id, codebook_id, result_list, ticks) ==
    IF Len(result_list) = 0 THEN [table |-> table, clock |-> now, saved_count |-> 0]
    ELSE LET at == IF Head(ticks) /\ (\E r \in table : r.created_at = now)
                   THEN now + 1 ELSE now
             stored == IF insert_fails(Head(result_list)) THEN table
                       ELSE table \cup {Classification(next_id(table), project_id,
                                                       codebook_id, Head(result_list), at)}
             rest == save_results_counts_all(stored, at, project_id, codebook_id,
                                             Tail(result_list), Tail(ticks))
         IN  [rest EXCEPT !.saved_count = @ + 1]

\* The loop of save_classification_results: one save_classification per
\* result, each in its own session; a failing one is printed and skipped.
\* created_at is read from the clock at each insert: ticks[k] tells whether
\* the clock moved on before the k-th insert (a move is only modelled once
\* a row holds the current reading, other moves cannot be observed).
RECURSIVE save_results(_, _, _, _, _, _)
save_results(table, now, project_id, codebook_id, result_list, ticks) ==
    IF Len(result_list) = 0 THEN [table |-> table, clock |-> now, saved_count |-> 0]
    ELSE LET at == IF Head(ticks) /\ (\E r \in table : r.created_at = now)
                   THEN now + 1 ELSE now
             stored == IF insert_fails(Head(result_list)) THEN table
                       ELSE table \cup {Classification(next_id(table), project_id,
                                                       codebook_id, Head(result_list), at)}
             rest == save_results(stored, at, project_id, codebook_id,
                                  Tail(result_list), Tail(ticks))
         IN  [rest EXCEPT !.saved_count =
                              @ + (IF insert_fails(Head(result_list)) THEN 0 ELSE 1)]

\* How many of the result_list can be stored.
RECURSIVE storable(_)
storable(result_list) ==
    IF Len(result_list) = 0 THEN 0
    ELSE (IF insert_fails(Head(result_list)) THEN 0 ELSE 1) + storable(Tail(result_list))

\* ProjectManager.save_classification_results(project_name, result_list)
SaveClassificationResults(name, result_list) ==
    /\ LET project == db_get_project(name)
       IN  IF IsNone(project)
           THEN /\ last_op' = OpRaises("save_classification_results", name, "ValueError")
                /\ UNCHANGED <<classifications, clock>>
           ELSE /\ Cardinality(classifications) + storable(result_list)
                       <= MaxClassifications
                /\ \E ticks \in [1..Len(result_list) -> BOOLEAN] :
                      LET latest_codebook == db_get_latest_codebook(project.id)
                          codebook_id == IF IsNone(latest_codebook) THEN None
                                         ELSE PyInt(latest_codebook.id)
                          saved == save_results(classifications, clock, project.id,
                                                codebook_id, result_list, ticks)
                      IN  /\ classifications' = saved.table
                          /\ clock' = saved.clock
                          /\ last_op' = OpReturns("save_classification_results",
                                                  name,
                                                  PyInt(saved.saved_count))
    /\ UNCHANGED <<client, multi_label, include_explanation, batch_vars, sched_vars,
                   savers, util_vars,
                   projects, codebooks>>

\* The rows of table classifications of one project.
classifications_of(project_id) ==
    {r \in classifications : r.project_id = project_id}

\* DatabaseManager.get_project_classifications: the lists the query
\* filter(project_id == ...).order_by(created_at.desc()).all() can give.
\* The order of rows with equal created_at is not set by the query.
db_get_project_classifications(project_id) ==
    {rows \in [1..Cardinality(classifications_of(project_id))
                  -> classifications_of(project_id)] :
        /\ \A i, j \in DOMAIN rows : i # j => rows[i] # rows[j]
        /\ \A i, j \in DOMAIN rows :
               i < j => rows[i].created_at >= rows[j].created_at}

\* ProjectManager.get_project_results(project_name): one line per row the
\* query returned, in the order it returned them.
GetProjectResults(name) ==
    /\ LET project == db_get_project(name)
       IN  IF IsNone(project)
           THEN last_op' = OpRaises("get_project_results", name, "ValueError")
           ELSE \E rows \in db_get_project_classifications(project.id) :
                   last_op' = OpReturns("get_project_results", name, List(rows))
    /\ UNCHANGED <<client, multi_label, include_explanation, batch_vars, sched_vars,
                   savers, util_vars,
                   projects, codebooks, classifications, clock>>

\* Time passes between two calls: datetime.utcnow() gives a later reading.
Tick ==
    /\ \E r \in classifications : r.created_at = clock
    /\ clock' = clock + 1
    /\ UNCHANGED <<client, multi_label, include_explanation, batch_vars, sched_vars,
                   savers, util_vars,
                   projects, codebooks, classifications, last_op>>

\* The calls on projects and codebooks, on a new database.
NextStore ==
    \/ \E name \in ProjectNames : CreateProject(name)
    \/ \E name, new_name \in ProjectNames : UpdateProject(name, new_name)
    \/ \E name \in ProjectNames : DeleteProject(name)
    \/ \E name \in ProjectNames, codebook \in CodebookValues :
          SaveCodebook(name, codebook)

\* The calls on classification results.
NextResults ==
    \/ \E name \in ProjectNames, result_list \in ResultLists :
          SaveClassificationResults(name, result_list)
    \/ \E name \in ProjectNames : GetProjectResults(name)
    \/ \E name \in ProjectNames : DeleteProject(name)
    \/ Tick

\* No classification under way.
NoClassify ==
    /\ client = "failing"
    /\ multi_label = FALSE
    /\ include_explanation = FALSE
    /\ NoCall
    /\ NoRun

\* A new database.
InitStore == NoClassify /\ NoStore /\ NoChunk /\ NoText

\* The database after create_project("p"), create_project("q") and
\* save_codebook("p", codebook).
InitResults ==
    /\ NoClassify
    /\ projects = {Project(1, "p"), Project(2, "q")}
    /\ \E codebook \in CodebookValues :
          codebooks = {CodebookVersion(1, 1, 1, model_dump(codebook))}
    /\ classifications = {}
    /\ clock = 0
    /\ last_op = OpReturns("save_codebook", "p", PyInt(1))
    /\ NoSave
    /\ NoChunk
    /\ NoText

\* Projects created and deleted, codebooks and results saved to them: one
\* codebook value, and result lists of one result that is stored or not.
LifecycleCodebooks == {Codebook(<<CodeX>>)}
LifecycleResultLists == {<<ResultR1>>, <<ResultBad>>}
NextLifecycle ==
    \/ \E name \in ProjectNames : CreateProject(name)
    \/ \E name \in ProjectNames : DeleteProject(name)
    \/ \E name \in ProjectNames, codebook \in LifecycleCodebooks :
          /\ Cardinality(codebooks) + Cardinality(classifications) < MaxRows
          /\ SaveCodebook(name, codebook)
    \/ \E name \in ProjectNames, result_list \in LifecycleResultLists :
          /\ Cardinality(codebooks) + Cardinality(classifications) < MaxRows
          /\ SaveClassificationResults(name, result_list)

SpecStore == InitStore /\ [][NextStore]_vars
SpecLifecycle == InitStore /\ [][NextLifecycle]_vars
SpecResults == InitResults /\ [][NextResults]_vars

(***************************************************************************)
(* save_codebook called by several callers at once (threads of one process *)
(* or processes on one database file).  DatabaseManager.save_codebook      *)
(* reads the latest version with a query and inserts the new row with a    *)
(* later commit; another caller can run between the two.                   *)
(***************************************************************************)
\* ProjectManager.save_codebook up to the query of DatabaseManager
\* .save_codebook: the project is fetched, the codebook dumped and
\* next_version computed from the rows committed so far.
SaveCodebookBegin(c, name, codebook) ==
    /\ savers[c].pc = "idle"
    /\ LET project == db_get_project(name)
       IN  IF IsNone(project)
           THEN /\ last_op' = OpRaises("save_codebook", name, "ValueError")
                /\ UNCHANGED savers
           ELSE /\ savers' = [savers EXCEPT
                                 ![c] = [pc |-> "insert", name |-> name,
                                         project_id |-> project.id,
                                         next_version |-> next_version(project.id),
                                         data |-> model_dump(codebook)]]
                /\ UNCHANGED last_op
    /\ UNCHANGED <<client, multi_label, include_explanation, batch_vars, sched_vars,
                   util_vars, projects, codebooks, classifications, clock>>

\* session.add(codebook); session.commit(): the row is inserted with the
\* version computed before.  While another caller is between its query and
\* its commit the database may also refuse the write (OperationalError,
\* "database is locked"), depending on the locks the driver holds.
SaveCodebookCommit(c) ==
    /\ savers[c].pc = "insert"
    /\ \/ /\ Cardinality(codebooks) < MaxCodebooks
          /\ codebooks' = codebooks \cup
                 {CodebookVersion(next_id(codebooks), savers[c].project_id,
                                  savers[c].next_version, savers[c].data)}
          /\ last_op' = OpReturns("save_codebook", savers[c].name,
                                  PyInt(savers[c].next_version))
       \/ /\ \E o \in Callers \ {c} : savers[o].pc = "insert"
          /\ last_op' = OpRaises("save_codebook", savers[c].name, "OperationalError")
          /\ UNCHANGED codebooks
    /\ savers' = [savers EXCEPT ![c] = IdleSaver]
    /\ UNCHANGED <<client, multi_label, include_explanation, batch_vars, sched_vars,
                   util_vars, projects, classifications, clock>>

NextRace ==
    \/ \E c \in Callers, name \in ProjectNames, codebook \in CodebookValues :
          SaveCodebookBegin(c, name, codebook)
    \/ \E c \in Callers : SaveCodebookCommit(c)

\* The database after create_project("p"): project q is not stored.
InitRace ==
    /\ NoClassify
    /\ NoChunk
    /\ NoText
    /\ projects = {Project(1, "p")}
    /\ codebooks = {}
    /\ classifications = {}
    /\ clock = 0
    /\ last_op = OpReturns("create_project", "p",
                           [kind |-> "ProjectMetadata", name |-> "p"])
    /\ NoSave

SpecRace == InitRace /\ [][NextRace]_vars

(***************************************************************************)
(* One call of a pure helper of ClassificationService, its arguments drawn *)
(* from bounded sets.                                                      *)
(***************************************************************************)
\* ClassificationService.chunk_list(items, size)
ChunkList ==
    /\ IsNone(chunks)
    /\ chunks' = List(chunk_list(chunk_items, chunk_size))
    /\ UNCHANGED <<client, multi_label, include_explanation, batch_vars, sched_vars,
                   store_vars, savers, chunk_items, chunk_size, text_codebook,
                   codebook_text>>

\* The entry of chunk_list(items, size), size >= 1.
InitChunk ==
    /\ NoClassify
    /\ NoStore
    /\ NoText
    /\ chunk_items \in {Responses(1, n) : n \in 0..MaxItems}
    /\ chunk_size \in 1..MaxSize
    /\ chunks = None

\* Text is a sequence of characters.  The string literals of
\* reconstruct_codebook_text, as the source file spells them:
\* "- Code: ", "  Description: ", and the separator "\\n", which is the two
\* characters backslash and n.
CodePrefix == <<"-", " ", "C", "o", "d", "e", ":", " ">>
DescriptionPrefix ==
    <<" ", " ", "D", "e", "s", "c", "r", "i", "p", "t", "i", "o", "n", ":", " ">>
BackslashN == <<"\\", "n">>

\* The characters str.strip() removes.
Whitespace == {" ", "\t", "\n", "\r", "\f"}

RECURSIVE lstrip(_)
lstrip(text) ==
    IF Len(text) > 0 /\ Head(text) \in Whitespace THEN lstrip(Tail(text)) ELSE text

RECURSIVE rstrip(_)
rstrip(text) ==
    IF Len(text) > 0 /\ text[Len(text)] \in Whitespace
    THEN rstrip(SubSeq(text, 1, Len(text) - 1))
    ELSE text

\* text.strip()
strip(text) == rstrip(lstrip(text))

\* sep.join(parts) on character sequences
RECURSIVE join_text(_, _)
join_text(sep, parts) ==
    IF Len(parts) = 0 THEN <<>>
    ELSE IF Len(parts) = 1 THEN parts[1]
    ELSE parts[1] \o sep \o join_text(sep, Tail(parts))

\* f"- Code: {item.code}\\n  Description: {item.description}"
code_text(item) ==
    CodePrefix \o item.code \o BackslashN \o DescriptionPrefix \o item.description

\* ClassificationService.reconstruct_codebook_text(codebook)
reconstruct_codebook_text(codebook) ==
    IF IsNone(codebook) \/ Len(codebook.codes) = 0 THEN <<>>
    ELSE strip(join_text(BackslashN,
                         [k \in 1..Len(codebook.codes) |-> code_text(codebook.codes[k])]))

\* The codes a codebook handed to reconstruct_codebook_text is made of: code,
\* description and examples are character sequences here.
TextCodes ==
    {Code(<<"X">>, <<"d", "x">>, <<<<"e", "1">>>>),
     Code(<<"Y">>, <<"d", "y">>, <<>>),
     Code(<<"Z">>, <<>>, <<>>),
     Code(<<"W">>, <<"d", " ">>, <<>>),
     Code(<<"a", " ", "b">>, <<"c">>, <<<<"e", "2">>, <<"e", "3">>>>)}

TextCodebooks ==
    {None} \cup {Codebook(codes) : codes \in SeqUpTo(TextCodes, MaxCodes)}

\* ClassificationService.reconstruct_codebook_text(codebook), called once.
ReconstructCodebookText ==
    /\ IsNone(codebook_text)
    /\ codebook_text' = Str(reconstruct_codebook_text(text_codebook))
    /\ UNCHANGED <<client, multi_label, include_explanation, batch_vars, sched_vars,
                   store_vars, savers, chunk_items, chunk_size, chunks,
                   text_codebook>>

\* The entry of reconstruct_codebook_text(codebook).
InitText ==
    /\ NoClassify
    /\ NoStore
    /\ NoChunk
    /\ text_codebook \in TextCodebooks
    /\ codebook_text = None

\* The reader of the text block: the text is cut at its newlines, and the
\* lines are read in pairs "- Code: <code>", "  Description: <description>".
RECURSIVE split_lines(_)
split_lines(text) ==
    IF \E i \in 1..Len(text) : text[i] = "\n"
    THEN LET i == CHOOSE i \in 1..Len(text) :
                     text[i] = "\n" /\ \A j \in 1..(i - 1) : text[j] # "\n"
         IN  <<SubSeq(text, 1, i - 1)>> \o split_lines(SubSeq(text, i + 1, Len(text)))
    ELSE <<text>>

starts_with(text, prefix) ==
    Len(text) >= Len(prefix) /\ SubSeq(text, 1, Len(prefix)) = prefix

after(text, prefix) == SubSeq(text, Len(prefix) + 1, Len(text))

parse_codebook_text(text) ==
    IF Len(text) = 0 THEN List(<<>>)
    ELSE LET lines == split_lines(text)
         IN  IF /\ Len(lines) % 2 = 0
                /\ \A k \in 1..(Len(lines) \div 2) :
                       /\ starts_with(lines[2 * k - 1], CodePrefix)
                       /\ starts_with(lines[2 * k], DescriptionPrefix)
             THEN List([k \in 1..(Len(lines) \div 2) |->
                           [code |-> after(lines[2 * k - 1], CodePrefix),
                            description |-> after(lines[2 * k], DescriptionPrefix)]])
             ELSE [kind |-> "unreadable", val |-> lines]

\* One call of chunk_list or of reconstruct_codebook_text.
NextUtil == ChunkList \/ ReconstructCodebookText

SpecUtil == (InitChunk \/ InitText) /\ [][NextUtil]_vars

(***************************************************************************)
(* Properties of classify_batch (SpecBatch).                               *)
(***************************************************************************)
Returned == pc = "returned"

\* The entries the model returned to the direct call.
Entries == IF IsNone(parsed) THEN <<>> ELSE parsed.results

\* An entry whose index is an integer in [0, n).
InRange(item, n) ==
    item.index.type = "int" /\ 0 <= item.index.val /\ item.index.val < n

\* The places of Entries that name position k (1-based) of the responses.
Naming(k) ==
    {e \in 1..Len(Entries) :
        InRange(Entries[e], Len(responses)) /\ Entries[e].index.val = k - 1}

RemoveAt(seq, e) == SubSeq(seq, 1, e - 1) \o SubSeq(seq, e + 1, Len(seq))

\* C1: for every response list and every adapter behaviour, classify_batch
\* returns (it never raises) a list with exactly len(responses) entries.
C1_LengthInvariant ==
    /\ pc # "raised"
    /\ Returned => Len(ret) = Len(responses)

\* C1 witness: a call returned although the adapter gave two entries for one
\* position and none for the others.
C1_Witness ==
    /\ Returned
    /\ Len(responses) = MaxLen
    /\ Len(Entries) = 2
    /\ Cardinality(Naming(1)) = 2

\* C4: an entry whose index is negative, >= len(responses) or not an integer
\* is ignored: the output is the one the same adapter return gives without it.
C4_InvalidIndexIgnored ==
    Returned =>
        \A e \in 1..Len(Entries) :
            ~InRange(Entries[e], Len(responses)) =>
                ret = align(responses,
                            [parsed EXCEPT !.results = RemoveAt(Entries, e)],
                            include_explanation)

\* C4 witness: the adapter returned index -1 next to a valid entry with items,
\* and the valid entry's slot is coded.
C4_Witness ==
    /\ Returned
    /\ Len(responses) >= 2
    /\ Len(Entries) = 2
    /\ Entries[1].index = Int_(0) /\ Len(Entries[1].items) > 0
    /\ Entries[2].index = Int_(-1) /\ Len(Entries[2].items) > 0
    /\ ret[1].Assigned_Code # "No Code Applied"

\* C5: if the adapter returns null, or an object with an empty results list,
\* every entry of the output is the default, one per response.
C5_DefaultFallback ==
    (Returned /\ Len(Entries) = 0) =>
        /\ Len(ret) = Len(responses)
        /\ \A k \in 1..Len(ret) : ret[k] = DEFAULT

\* C5 witness: the request failed or was refused on a non-empty batch.
C5_Witness ==
    /\ Returned
    /\ Len(responses) > 0
    /\ calls = 1
    /\ IsNone(parsed)

\* C5 witness, second case: an object with an empty results list.
C5_WitnessEmpty ==
    /\ Returned
    /\ Len(responses) > 0
    /\ ~IsNone(parsed)
    /\ Len(parsed.results) = 0

\* C10 (as stated): a position no in-range integer entry names holds the
\* default, and a position named by ANY entry with an empty items list holds
\* "No Code Applied" with empty details.
C10_AsStated ==
    Returned =>
        \A k \in 1..Len(responses) :
            /\ Naming(k) = {} => ret[k] = DEFAULT
            /\ (\E e \in Naming(k) : Len(Entries[e].items) = 0) =>
                   (ret[k].Assigned_Code = "No Code Applied" /\ ret[k].Details = <<>>)

\* C10 (amended): a position no in-range integer entry names holds the
\* default, and a position whose LAST naming entry, in returned order, has an
\* empty items list holds "No Code Applied" with empty details.
C10_OmittedOrEmptyIsDefault ==
    Returned =>
        \A k \in 1..Len(responses) :
            /\ Naming(k) = {} => ret[k] = DEFAULT
            /\ (Naming(k) # {} /\ Len(Entries[Max(Naming(k))].items) = 0) =>
                   (ret[k].Assigned_Code = "No Code Applied" /\ ret[k].Details = <<>>)

\* C10 witness: the scenario of three responses with entries for indices 0
\* (coded) and 2 (empty items): index 1 was never returned.
C10_Witness ==
    /\ Returned
    /\ Len(responses) = 3
    /\ Len(Entries) = 2
    /\ Entries[1].index = Int_(0) /\ Len(Entries[1].items) > 0
    /\ Entries[2].index = Int_(2) /\ Len(Entries[2].items) = 0
    /\ ret[1].Assigned_Code = "A"
    /\ ret[2] = DEFAULT
    /\ ret[3] = DEFAULT

\* C12 (as stated): the slot of EVERY returned entry with an in-range index
\* and a non-empty item list holds that entry's labels joined by " | " in
\* returned order, and one detail record per item in the same order.
C12_AsStated ==
    Returned =>
        \A e \in 1..Len(Entries) :
            (InRange(Entries[e], Len(responses)) /\ Len(Entries[e].items) > 0) =>
                LET slot == ret[Entries[e].index.val + 1]
                    items == Entries[e].items
                IN  /\ slot.Assigned_Code = join(" | ", labels_of(Entries[e]))
                    /\ Len(slot.Details) = Len(items)
                    /\ \A k \in 1..Len(items) :
                           slot.Details[k].label = items[k].label

\* C12 (amended): the slot of a returned entry with an in-range index and a
\* non-empty item list, when no later entry names the same slot, holds the
\* entry's labels joined by " | " in returned order (items A then B give
\* exactly "A | B") and one detail record per item in the same order.
C12_SentinelJoin ==
    Returned =>
        \A e \in 1..Len(Entries) :
            (/\ InRange(Entries[e], Len(responses))
             /\ Len(Entries[e].items) > 0
             /\ e = Max(Naming(Entries[e].index.val + 1))) =>
                LET slot == ret[Entries[e].index.val + 1]
                    items == Entries[e].items
                IN  /\ slot.Assigned_Code = join(" | ", labels_of(Entries[e]))
                    /\ items = <<EvA, EvB>> => slot.Assigned_Code = "A | B"
                    /\ Len(slot.Details) = Len(items)
                    /\ \A k \in 1..Len(items) :
                           /\ slot.Details[k].label = items[k].label
                           /\ slot.Details[k].fragment = items[k].fragment
                           /\ slot.Details[k].pertinence = items[k].pertinence

\* C12 witness: one entry with items A then B was returned for the second
\* response, whose slot reads "A | B" with the two records in that order.
C12_Witness ==
    /\ Returned
    /\ Len(responses) >= 2
    /\ Len(Entries) = 1
    /\ Entries[1].index = Int_(1)
    /\ Entries[1].items = <<EvA, EvB>>
    /\ ret[2].Assigned_Code = "A | B"
    /\ Len(ret[2].Details) = 2
    /\ ret[2].Details[1].label = "A" /\ ret[2].Details[2].label = "B"

\* C13: with include_explanation false every detail record of every output
\* slot has explanation None, whatever the adapter supplied; with it true
\* the record written for an item carries the item's explanation unchanged.
C13_ExplanationGated ==
    Returned =>
        /\ ~include_explanation =>
               \A k \in 1..Len(ret) : \A d \in 1..Len(ret[k].Details) :
                   IsNone(ret[k].Details[d].explanation)
        /\ include_explanation =>
               \A k \in 1..Len(ret) :
                   Naming(k) # {} =>
                       LET items == Entries[Max(Naming(k))].items
                       IN  /\ Len(ret[k].Details) = Len(items)
                           /\ \A d \in 1..Len(items) :
                                  ret[k].Details[d].explanation = items[d].explanation

\* C13 witness: the flag is false, the adapter supplied an explanation for
\* the item written to the first slot, and the record holds None.
C13_Witness ==
    /\ Returned
    /\ ~include_explanation
    /\ Len(responses) > 0
    /\ Len(Entries) = 1
    /\ Entries[1].index = Int_(0)
    /\ Entries[1].items = <<EvA>>
    /\ ~IsNone(Entries[1].items[1].explanation)
    /\ Len(ret[1].Details) = 1
    /\ IsNone(ret[1].Details[1].explanation)

\* C13 witness, second case: the flag is true and the supplied explanation
\* is in the record.
C13_WitnessCarried ==
    /\ Returned
    /\ include_explanation
    /\ Len(Entries) = 1
    /\ Entries[1].index = Int_(0)
    /\ Entries[1].items = <<EvA>>
    /\ ret[1].Details[1].explanation = Str("why")

\* C14: _call_openai_api returns None when the request fails in any way
\* (network error, API error, output that does not fit the schema), and no
\* exception reaches its caller.
C14_AdapterNeverRaises ==
    /\ pc # "raised"
    /\ \A o \in Outcomes(client) : ~call_openai_api(o).raised
    /\ (Returned /\ ~IsNone(api_outcome) /\ api_outcome.kind = "raise") =>
           IsNone(parsed)

\* C14 witness: the request of a call on a non-empty batch ended in an API
\* error, and the call returned with nothing parsed.
C14_Witness ==
    /\ Returned
    /\ Len(responses) > 0
    /\ calls = 1
    /\ api_outcome = Raise("api")
    /\ IsNone(parsed)

\* C23: the single-label rule is not enforced by the alignment: the output
\* is the one the adapter's return gives through align, which does not read
\* multi_label, so an entry with several items is pipe-joined and keeps all
\* its detail records when multi_label is false as when it is true.
C23_SingleLabelNotEnforced ==
    Returned =>
        /\ ret = align(responses, parsed, include_explanation)
        /\ \A k \in 1..Len(responses) :
               (Naming(k) # {} /\ Len(Entries[Max(Naming(k))].items) > 1) =>
                   LET items == Entries[Max(Naming(k))].items
                   IN  /\ ret[k].Assigned_Code
                              = join(" | ", [d \in 1..Len(items) |-> items[d].label])
                       /\ Len(ret[k].Details) = Len(items)

\* C23 witness: a single-label call whose adapter returned two items for the
\* first response; the slot reads "A | B" and holds both records.
C23_Witness ==
    /\ Returned
    /\ ~multi_label
    /\ Len(Entries) = 1
    /\ Entries[1].index = Int_(0)
    /\ Entries[1].items = <<EvA, EvB>>
    /\ ret[1].Assigned_Code = "A | B"
    /\ Len(ret[1].Details) = 2

\* C27: when several returned entries have the same in-range index, the slot
\* holds the labels and details of the last of them alone, and the earlier
\* ones leave no trace in any slot: the output is the one the same return
\* gives without them.
C27_LastDuplicateWins ==
    Returned =>
        \A k \in 1..Len(responses) :
            Cardinality(Naming(k)) > 1 =>
                LET last == Entries[Max(Naming(k))]
                IN  /\ ret[k].Assigned_Code =
                           (IF Len(last.items) = 0 THEN "No Code Applied"
                            ELSE join(" | ", [d \in 1..Len(last.items) |->
                                                last.items[d].label]))
                    /\ Len(ret[k].Details) = Len(last.items)
                    /\ \A d \in 1..Len(last.items) :
                           ret[k].Details[d].label = last.items[d].label
                    /\ \A e \in Naming(k) \ {Max(Naming(k))} :
                           ret = align(responses,
                                       [parsed EXCEPT !.results = RemoveAt(Entries, e)],
                                       include_explanation)

\* C27 witness: two entries for the first of three responses, items A then
\* items B: the slot reads "B" with one record, the other slots are default.
C27_Witness ==
    /\ Returned
    /\ Len(responses) = 3
    /\ Len(Entries) = 2
    /\ Entries[1].index = Int_(0) /\ Entries[1].items = <<EvA>>
    /\ Entries[2].index = Int_(0) /\ Entries[2].items = <<EvB>>
    /\ ret[1].Assigned_Code = "B"
    /\ Len(ret[1].Details) = 1 /\ ret[1].Details[1].label = "B"
    /\ ret[2] = DEFAULT /\ ret[3] = DEFAULT

(***************************************************************************)
(* Properties of classify_batches_async (Spec, SpecLive, SpecChunked,      *)
(* SpecCap).                                                               *)
(***************************************************************************)
RunReturned == sched_pc = "returned" /\ Len(batched_responses) > 0

\* The request of task i ended in an error.
Failed(i) == worker_outcome[i].kind = "raise"

\* What classifying batch i gives, from the batch and from what the model
\* gave for that batch alone (i a finished task).
ResultOf(i) ==
    IF Len(batched_responses[i]) = 0 THEN <<>>
    ELSE IF Failed(i) THEN all_default(batched_responses[i])
    ELSE align(batched_responses[i], worker_outcome[i].parsed, include_explanation)

\* C2: position i of the result list holds the result of classifying
\* batched_responses[i], whatever order the tasks complete in: while the run
\* collects, a filled position holds its own batch's result, and so does
\* every position of the returned list.
C2_PositionHoldsOwnBatch ==
    /\ \A i \in DOMAIN results :
          results[i] # None => (i \in finished /\ results[i] = List(ResultOf(i)))
    /\ RunReturned =>
          /\ Len(sched_ret.val) = Len(batched_responses)
          /\ \A i \in Batches : sched_ret.val[i] = List(ResultOf(i))

\* C2 witness: the last batch completed first: its result sits at the last
\* position while the first batch is still being classified.
C2_Witness ==
    /\ sched_pc = "collect"
    /\ Len(batched_responses) = MaxBatches
    /\ futures[1].state = "running"
    /\ MaxBatches \in yielded
    /\ Len(batched_responses[MaxBatches]) > 0
    /\ ~Failed(MaxBatches)
    /\ results[1] = None
    /\ results[MaxBatches] = List(ResultOf(MaxBatches))

\* C3: when the model call of one batch fails, that batch's result is the
\* all-default list, every other batch's result is what its own model output
\* gives, no exception reaches a future or the caller, and the run is never
\* blocked before it returns.
C3_FailureIsolated ==
    /\ sched_pc # "raised"
    /\ \A i \in finished : ~futures[i].exception
    /\ sched_pc # "returned" => ENABLED Next
    /\ RunReturned =>
          \A i \in Batches :
              /\ (Len(batched_responses[i]) > 0 /\ Failed(i)) =>
                     sched_ret.val[i] = List(all_default(batched_responses[i]))
              /\ (Len(batched_responses[i]) > 0 /\ ~Failed(i)) =>
                     sched_ret.val[i] =
                         List(align(batched_responses[i], worker_outcome[i].parsed,
                                    include_explanation))

\* C3 witness: of three non-empty batches the middle one failed, and the run
\* returned with its neighbours coded.
C3_Witness ==
    /\ RunReturned
    /\ Len(batched_responses) = 3
    /\ \A i \in Batches : Len(batched_responses[i]) > 0
    /\ Failed(2) /\ ~Failed(1) /\ ~Failed(3)
    /\ sched_ret.val[2] = List(all_default(batched_responses[2]))
    /\ sched_ret.val[1].val[1].Assigned_Code = "A"
    /\ sched_ret.val[3].val[1].Assigned_Code = "A | B"

\* The returned batch results, concatenated in order.
RECURSIVE Concat(_)
Concat(lists) ==
    IF Len(lists) = 0 THEN <<>> ELSE Head(lists).val \o Concat(Tail(lists))

\* C6: for a flat list split by chunk_list(responses, BATCH_SIZE), the
\* concatenation of the returned batch results has exactly one entry per
\* response, the k-th being the result of the k-th response, whatever the
\* model returned for any batch.
C6_ConcatAligned ==
    /\ sched_pc # "raised"
    /\ sched_pc = "returned" =>
          LET out == Concat(sched_ret.val)
          IN  /\ Len(out) = Len(flat)
              /\ \A k \in 1..Len(flat) :
                    \E c \in Batches :
                        \E q \in 1..Len(batched_responses[c]) :
                            /\ batched_responses[c][q] = flat[k]
                            /\ out[k] = ResultOf(c)[q]

\* C6 witness: 2 * BATCH_SIZE + 1 responses in three batches; the second
\* batch failed, the first got its last index coded, the third its only one.
C6_Witness ==
    /\ sched_pc = "returned"
    /\ Len(flat) = 2 * BATCH_SIZE + 1
    /\ Len(batched_responses) = 3
    /\ Failed(2)
    /\ Concat(sched_ret.val)[BATCH_SIZE].Assigned_Code = "A"
    /\ Concat(sched_ret.val)[BATCH_SIZE + 1] = DEFAULT
    /\ Concat(sched_ret.val)[2 * BATCH_SIZE + 1].Assigned_Code = "A | B"

\* C7: at no moment of a run are more than MAX_CONCURRENCY model calls in
\* flight.
C7_ConcurrencyCap == Cardinality(in_flight) <= MAX_CONCURRENCY

\* C7 witness: MAX_CONCURRENCY calls are in flight while a submitted batch
\* waits in the queue.
C7_Witness ==
    /\ Cardinality(in_flight) = MAX_CONCURRENCY
    /\ Len(queue) > 0

\* C8: the run returns only after the task of every batch has completed, on
\* return no position is left as the None placeholder, and (every model call
\* returning) the run eventually returns.
C8_JoinsEveryBatch ==
    /\ [](RunReturned =>
             /\ \A i \in Batches : futures[i].state = "finished"
             /\ Len(sched_ret.val) = Len(batched_responses)
             /\ \A i \in Batches : sched_ret.val[i] # None)
    /\ <>(sched_pc = "returned")

\* C8 witness: a run of MaxBatches batches has returned.
C8_Witness ==
    /\ RunReturned
    /\ Len(batched_responses) = MaxBatches
    /\ \A i \in Batches : futures[i].state = "finished"

\* C9: each position of the pre-sized result list is written exactly once, by
\* exactly one writer, and no two tasks write the same position.
C9_WrittenOnce ==
    /\ \A i \in Batches : writes[i] <= 1 /\ Cardinality(writers[i]) <= 1
    /\ \A f, g \in finished : f # g => result_slot(f) # result_slot(g)
    /\ \A i, j \in Batches : i # j => writers[i] \cap writers[j] = {}
    /\ RunReturned => \A i \in Batches : writes[i] = 1 /\ Cardinality(writers[i]) = 1

\* C9 witness: two positions are written, the third not yet.
C9_Witness ==
    /\ sched_pc = "collect"
    /\ Len(batched_responses) = 3
    /\ writes[1] = 1 /\ writes[3] = 1 /\ writes[2] = 0
    /\ writers[1] = {1} /\ writers[3] = {3}


\* C24: there is no retry.  One task is submitted per batch, in batch
\* order; the adapter is called at most once for a batch at any time, once
\* for every non-empty batch whose task has finished, failed call or not,
\* and never for an empty batch.
C24_NoRetry ==
    /\ submitted <= Len(batched_responses)
    /\ \A i \in Batches : (futures[i].state # "new") <=> (i <= submitted)
    /\ \A a, b \in 1..Len(queue) : a < b => queue[a] < queue[b]
    /\ \A a \in 1..Len(queue) : futures[queue[a]].state = "queued"
    /\ \A i \in Batches :
          /\ worker_calls[i] <= 1
          /\ Len(batched_responses[i]) = 0 => worker_calls[i] = 0
          /\ (i \in finished /\ Len(batched_responses[i]) > 0) => worker_calls[i] = 1
          /\ i \notin finished => worker_calls[i] = 0
    /\ sched_pc = "returned" =>
          /\ submitted = Len(batched_responses)
          /\ \A i \in Batches : i \in finished

\* C24 witness: a run of three batches has returned; the call of the first
\* batch failed and was made once, the second batch was empty and made none.
C24_Witness ==
    /\ sched_pc = "returned"
    /\ Len(batched_responses) = 3
    /\ submitted = 3
    /\ Len(batched_responses[1]) > 0 /\ Failed(1) /\ worker_calls[1] = 1
    /\ Len(batched_responses[2]) = 0 /\ worker_calls[2] = 0
    /\ Len(batched_responses[3]) > 0 /\ worker_calls[3] = 1

(***************************************************************************)
(* Properties of both entry points (SpecClassify).                         *)
(***************************************************************************)
\* C11: classify_batch on an empty response list returns [] without calling
\* the adapter; classify_batches_async on an empty batch list returns []
\* without starting any task and without calling the adapter.
C11_EmptyMakesNoCall ==
    /\ (pc \notin {"idle", "ready"} /\ Len(responses) = 0) =>
           /\ pc = "returned"
           /\ ret = <<>>
           /\ calls = 0
           /\ IsNone(api_outcome)
    /\ (sched_pc \notin {"idle", "entry"} /\ Len(batched_responses) = 0) =>
           /\ sched_pc = "returned"
           /\ sched_ret = List(<<>>)
           /\ submitted = 0
           /\ queue = <<>>
           /\ futures = <<>>
           /\ worker_calls = <<>>
           /\ calls = 0

\* C11 witness: a direct call on the empty list has returned.
C11_Witness ==
    /\ pc = "returned"
    /\ Len(responses) = 0
    /\ ret = <<>>
    /\ calls = 0

\* C11 witness, second case: a run on the empty batch list has returned.
C11_WitnessRun ==
    /\ sched_pc = "returned"
    /\ Len(batched_responses) = 0
    /\ sched_ret = List(<<>>)
    /\ submitted = 0

(***************************************************************************)
(* Properties of the project store (SpecStore, SpecResults).               *)
(***************************************************************************)
\* The call returned (it did not raise).
OpReturned == last_op'.raised = "none"

\* The version numbers table codebooks holds for a project.
VersionsOf(project_id) == {r.version : r \in codebooks_of(project_id)}

\* C15: for each project save_codebook gives version 1 to the first codebook
\* saved and to every later save the previous highest version plus 1, which
\* is above every version saved before for that project; the rows and the
\* numbering of the other projects are not touched.
C15_VersionsIncrease ==
    /\ [](\A p \in projects :
             VersionsOf(p.id) = 1..Cardinality(codebooks_of(p.id)))
    /\ [][\A name \in ProjectNames, codebook \in CodebookValues :
             (SaveCodebook(name, codebook) /\ OpReturned) =>
                 LET project_id == db_get_project(name).id
                     before == VersionsOf(project_id)
                     version == last_op'.value.val
                 IN  /\ before = {} => version = 1
                     /\ before # {} => version = Max(before) + 1
                     /\ \A v \in before : version > v
                     /\ \E r \in codebooks' \ codebooks :
                            r.project_id = project_id /\ r.version = version
                     /\ \A o \in projects :
                            o.id # project_id =>
                                codebooks_of(o.id)' = codebooks_of(o.id)]_vars

\* C15 witness: project q got version 1 for its first codebook after
\* project p had been given versions 1 and 2.
C15_Witness ==
    /\ last_op = OpReturns("save_codebook", "q", PyInt(1))
    /\ ~IsNone(db_get_project("p"))
    /\ ~IsNone(db_get_project("q"))
    /\ VersionsOf(db_get_project("p").id) = {1, 2}
    /\ VersionsOf(db_get_project("q").id) = {1}
    /\ \E r \in codebooks_of(db_get_project("q").id) : r.id = 3

\* C16: get_latest_codebook gives None for a name without project and for a
\* project without codebook; after a save_codebook on a project it gives the
\* codebook that was passed, codes and order alike, and it goes on giving it
\* until the next save_codebook on that project.
C16_LatestIsLastSaved ==
    /\ [](\A name \in ProjectNames :
             (IsNone(db_get_project(name))
                  \/ codebooks_of(db_get_project(name).id) = {})
                 => IsNone(get_latest_codebook(name)))
    /\ [][\A name \in ProjectNames, codebook \in CodebookValues :
             (SaveCodebook(name, codebook) /\ OpReturned) =>
                 get_latest_codebook(name)' = codebook]_vars
    /\ [][\A p \in projects : \A q \in projects' :
             (/\ p.id = q.id
              /\ ~IsNone(get_latest_codebook(p.name))
              /\ ~\E codebook \in CodebookValues : SaveCodebook(p.name, codebook)) =>
                 get_latest_codebook(q.name)' = get_latest_codebook(p.name)]_vars

\* C16 witness: the codes X, Y were saved to p, then the codes Y, X, and
\* get_latest_codebook gives the codes Y, X.
C16_Witness ==
    /\ last_op = OpReturns("save_codebook", "p", PyInt(2))
    /\ \E r \in codebooks_of(db_get_project("p").id) :
          r.version = 1 /\ r.data = model_dump(Codebook(<<CodeX, CodeY>>))
    /\ get_latest_codebook("p") = Codebook(<<CodeY, CodeX>>)

\* C17 (as stated): delete_project(name) on an existing project returns True
\* and removes the project with its codebook versions and classifications,
\* after which get_project(name) is None and the name can be created again;
\* on a name without project it returns False and changes nothing.
C17_AsStated ==
    [][\A name \in ProjectNames :
          DeleteProject(name) =>
              IF IsNone(db_get_project(name))
              THEN /\ last_op' = OpReturns("delete_project", name, PyBool(FALSE))
                   /\ UNCHANGED <<projects, codebooks, classifications>>
              ELSE /\ last_op' = OpReturns("delete_project", name, PyBool(TRUE))
                   /\ \A r \in codebooks' \cup classifications' :
                          r.project_id # db_get_project(name).id
                   /\ IsNone(get_project(name)')
                   /\ ~name_taken(name, 0)']_vars

\* Every stored project has its own name.
UniqueNames ==
    \A p, q \in projects : p.name = q.name => p = q

\* C18: at all times at most one stored project has a given name, and
\* create_project with a name that is already stored fails with ValueError
\* and leaves the stored projects unchanged.
C18_NamesUnique ==
    /\ []UniqueNames
    /\ [][\A name \in ProjectNames :
             (CreateProject(name) /\ \E p \in projects : p.name = name) =>
                 /\ last_op' = OpRaises("create_project", name, "ValueError")
                 /\ UNCHANGED <<projects, codebooks, classifications>>]_vars

\* C18 witness: create_project("p") failed with ValueError while p and q
\* were stored.
C18_Witness ==
    /\ last_op = OpRaises("create_project", "p", "ValueError")
    /\ Cardinality(projects) = 2
    /\ \E r \in projects : r.name = "p"

\* A result the table can hold.
Storable(result) == ~IsNone(result.response_text)

\* C19: save_classification_results attempts every result of the list: the
\* rows added are those of the results that can be stored, in list order,
\* those after a failing one included, and the count returned is the number
\* of rows added.
C19_FailedSaveSkipped ==
    [][\A name \in ProjectNames, result_list \in ResultLists :
          (SaveClassificationResults(name, result_list) /\ OpReturned) =>
              LET added == classifications' \ classifications
                  good == SelectSeq(result_list, Storable)
                  first == next_id(classifications)
              IN  /\ last_op'.value = PyInt(Cardinality(added))
                  /\ Cardinality(added) = Len(good)
                  /\ classifications \subseteq classifications'
                  /\ \A k \in 1..Len(good) :
                         \E r \in added :
                             /\ r.id = first + k - 1
                             /\ r.project_id = db_get_project(name).id
                             /\ r.response_text = good[k].response_text]_vars

\* C19 witness: of the three results r1, one without text, r2 the call
\* stored r1 and r2 and returned 2.
C19_Witness ==
    /\ last_op = OpReturns("save_classification_results", "p", PyInt(2))
    /\ \E a, b \in classifications :
          /\ a.response_text = Str("r1")
          /\ b.response_text = Str("r2")
          /\ b.id = a.id + 1
          /\ a.project_id = 1 /\ b.project_id = 1

\* C20 (as stated): get_project_results gives all the classification rows of
\* the project and no other, newest first: a row saved later (a higher id,
\* rows are never deleted) never comes after a row saved earlier.
C20_AsStated ==
    [][\A name \in ProjectNames :
          (GetProjectResults(name) /\ OpReturned) =>
              LET rows == last_op'.value.val
              IN  /\ {rows[i] : i \in DOMAIN rows}
                         = classifications_of(db_get_project(name).id)
                  /\ Len(rows) = Cardinality(classifications_of(db_get_project(name).id))
                  /\ \A i, j \in DOMAIN rows :
                         i < j => rows[i].id > rows[j].id]_vars

(***************************************************************************)
(* Properties of the pure helpers (SpecUtil).                              *)
(***************************************************************************)
\* The chunks put end to end.
RECURSIVE Flat(_)
Flat(cs) == IF Len(cs) = 0 THEN <<>> ELSE Head(cs) \o Flat(Tail(cs))

\* C21: chunk_list(items, size) with size >= 1 is an order-preserving
\* partition: the chunks concatenated in order give items, every chunk has
\* between 1 and size elements, every chunk but the last has size elements,
\* and an empty list gives no chunk.
C21_ChunksPartition ==
    ~IsNone(chunks) =>
        LET cs == chunks.val
        IN  /\ Flat(cs) = chunk_items
            /\ \A c \in 1..Len(cs) : 1 <= Len(cs[c]) /\ Len(cs[c]) <= chunk_size
            /\ \A c \in 1..(Len(cs) - 1) : Len(cs[c]) = chunk_size
            /\ Len(chunk_items) = 0 => cs = <<>>

\* C21 witness: seven items in chunks of three give chunks of 3, 3 and 1.
C21_Witness ==
    /\ ~IsNone(chunks)
    /\ Len(chunk_items) = 7
    /\ chunk_size = 3
    /\ Len(chunks.val) = 3
    /\ Len(chunks.val[1]) = 3 /\ Len(chunks.val[2]) = 3 /\ Len(chunks.val[3]) = 1
    /\ chunks.val[3] = <<chunk_items[7]>>

\* C21 witness, second case: the empty list gives no chunk.
C21_WitnessEmpty ==
    /\ ~IsNone(chunks)
    /\ chunk_items = <<>>
    /\ chunks.val = <<>>

\* text occurs in whole as consecutive characters of within.
Occurs(text, within) ==
    \E i \in 0..(Len(within) - Len(text)) :
        SubSeq(within, i + 1, i + Len(text)) = text

\* C22 (as stated): reconstruct_codebook_text renders one Code/Description
\* line pair per code in codebook order, so that reading the text back gives
\* every code and description in the same order and content; no example
\* appears in the text; an empty or missing codebook gives the empty string.
C22_AsStated ==
    ~IsNone(codebook_text) =>
        IF IsNone(text_codebook) \/ Len(text_codebook.codes) = 0
        THEN codebook_text = Str(<<>>)
        ELSE /\ parse_codebook_text(codebook_text.val) =
                    List([k \in 1..Len(text_codebook.codes) |->
                             [code |-> text_codebook.codes[k].code,
                              description |-> text_codebook.codes[k].description]])
             /\ \A k \in 1..Len(text_codebook.codes) :
                    \A e \in 1..Len(text_codebook.codes[k].examples) :
                        ~Occurs(text_codebook.codes[k].examples[e], codebook_text.val)

(***************************************************************************)
(* Properties of interleaved save_codebook calls (SpecRace).               *)
(***************************************************************************)
\* C25 (as stated): no two codebook rows of one project carry the same
\* version number, also when two save_codebook calls for the project
\* interleave.
C25_AsStated ==
    \A a, b \in codebooks :
        (a.project_id = b.project_id /\ a.version = b.version) => a = b

(***************************************************************************)
(* Properties of a project's life (SpecLifecycle).                         *)
(***************************************************************************)
\* Every codebook and classification row belongs to a stored project.
NoOrphanRows ==
    \A r \in codebooks \cup classifications :
        \E p \in projects : p.id = r.project_id

\* C26: a project that create_project has just stored has no codebook and
\* no classification row, whatever was created, saved and deleted before,
\* under its name or its id; as long as it has no codebook row
\* get_latest_codebook gives None, and the save_codebook that finds it
\* without one returns version 1.
C26_NewProjectIsEmpty ==
    /\ []NoOrphanRows
    /\ [](\A p \in projects :
             codebooks_of(p.id) = {} => IsNone(get_latest_codebook(p.name)))
    /\ [][\A name \in ProjectNames :
             (CreateProject(name) /\ OpReturned) =>
                 \E p \in projects' \ projects :
                     /\ p.name = name
                     /\ \A r \in codebooks' \cup classifications' :
                            r.project_id # p.id
                     /\ IsNone(get_latest_codebook(name)')]_vars
    /\ [][\A name \in ProjectNames, codebook \in LifecycleCodebooks :
             (/\ SaveCodebook(name, codebook)
              /\ OpReturned
              /\ codebooks_of(db_get_project(name).id) = {}) =>
                 last_op'.value = PyInt(1)]_vars

\* C26 witness: p was created, a codebook and results were saved to q, p was
\* deleted and created again (it holds id 3 while no project holds id 1),
\* and its first save_codebook returned version 1.
C26_Witness ==
    /\ projects = {Project(2, "q"), Project(3, "p")}
    /\ last_op = OpReturns("save_codebook", "p", PyInt(1))
    /\ Cardinality(codebooks_of(2)) > 0
    /\ Cardinality(classifications_of(2)) > 0
    /\ Cardinality(codebooks_of(3)) = 1
    /\ classifications_of(3) = {}


====
